---- MODULE Spec2Model ----
(***************************************************************************)
(* Model of the projection engine of the S&P investment calculator         *)
(* (src/app.py): calculate_investment_detailed and the derived metrics the *)
(* script computes from its result (ROI column, CAGR, composition).        *)
(*                                                                         *)
(* Numbers.  The program computes in binary floating point: every          *)
(* multiplication rounds its result to the nearest representable value,    *)
(* additions of representable amounts are exact at the sizes used here.    *)
(* The model keeps that shape on a decimal grid: a monetary amount is an   *)
(* integer number of grid units (Scale units per euro), a rate is a        *)
(* fraction <<n, d>> with d > 0, a product is rounded to the nearest grid  *)
(* unit (Grow), sums and differences are exact.  round(x, 2) is the        *)
(* rounding of a grid amount to whole cents, ties to even (Round2); the    *)
(* emitted rows hold cents.  The grid is fine enough (a millionth of a     *)
(* euro) and the explored amounts and rates are chosen so that no emitted  *)
(* figure falls on a half cent, where the float's representation error     *)
(* would decide the rounding: on the explored inputs the rows of the model *)
(* are the rows of the program, to the cent.                               *)
(***************************************************************************)
EXTENDS Integers, Sequences, FiniteSets, TLC

\* Largest horizon and largest number of lump sums explored.
MaxYears == 2
MaxLumps == 2

\* for month in range(1, 13)
MonthsPerYear == 12

\* Grid units per cent and per euro.
CentUnits == 100 * 100
Scale == 100 * CentUnits

Euro(n) == n * Scale

-----------------------------------------------------------------------------
(* Arithmetic *)

Abs(x) == IF x < 0 THEN -x ELSE x

RECURSIVE GCD(_, _)
GCD(a, b) == IF b = 0 THEN a ELSE GCD(b, a % b)

\* The fraction n/d in lowest terms with a positive denominator (d # 0).
Rat(n, d) ==
    LET g == GCD(Abs(n), Abs(d))
        s == IF d < 0 THEN -1 ELSE 1
    IN  <<(s * n) \div g, (s * d) \div g>>

\* Sums over the least common denominator, which keeps the terms small.
RatAdd(p, q) ==
    LET g == GCD(p[2], q[2])
    IN  Rat(p[1] * (q[2] \div g) + q[1] * (p[2] \div g), (p[2] \div g) * q[2])
RatSub(p, q) == RatAdd(p, <<-q[1], q[2]>>)
\* p / q, q # 0
RatDiv(p, q) == Rat(p[1] * q[2], p[2] * q[1])
RatOne == <<1, 1>>
RatIsZero(p) == p[1] = 0

\* a / b rounded to the nearest integer, ties to even (b > 0).
RoundDiv(a, b) ==
    LET q == a \div b
        r == a % b
    IN  IF 2 * r < b THEN q
        ELSE IF 2 * r > b THEN q + 1
        ELSE IF q % 2 = 0 THEN q ELSE q + 1

\* x * (1 + rate) for a grid amount x, rounded to the grid.
Grow(x, rate) == x + RoundDiv(x * rate[1], rate[2])

\* round(x, 2): a grid amount to whole cents.
Round2(x) == RoundDiv(x, CentUnits)

-----------------------------------------------------------------------------
(* Inputs the sidebar hands to the engine *)

InitialInvestments == {0, 100}
MonthlyContributions == {0, 1}
\* 0 %, 12 %, -12 %
AnnualReturns == {<<0, 1>>, <<12, 100>>, <<-12, 100>>}
\* 3.2 %, -50 %, -200 %
AnnualIncreaseRates == {<<32, 1000>>, <<-1, 2>>, <<-2, 1>>}
\* 0 %, 2 %, -100 %
AnnualInflationRates == {<<0, 1>>, <<2, 100>>, <<-1, 1>>}
StartMonths == {12}
StartYears == {2020}
LumpAmounts == {30}
LumpYears(years) == {0, 1, years, years + 1}

RECURSIVE SeqsUpTo(_, _)
SeqsUpTo(S, n) ==
    IF n = 0 THEN {<<>>}
    ELSE LET shorter == SeqsUpTo(S, n - 1)
         IN  shorter \cup {Append(s, x) : s \in {t \in shorter : Len(t) = n - 1}, x \in S}

LumpSumLists(years) == SeqsUpTo(LumpYears(years) \X LumpAmounts, MaxLumps)

MONTH_NAMES == <<"January", "February", "March", "April", "May", "June", "July",
                 "August", "September", "October", "November", "December">>

-----------------------------------------------------------------------------
(* calculate_investment_detailed *)

\* The activation record of one call; pc is the position in the function.
NoFrame ==
    [pc |-> "idle", year |-> 0, month |-> 0,
     total_contributions |-> 0, total_value |-> 0, monthly_contrib |-> 0,
     monthly_rate |-> <<0, 1>>, real_annual_return |-> <<0, 1>>,
     real_monthly_rate |-> <<0, 1>>,
     current_month |-> 0, current_year |-> 0,
     year_start_value |-> 0, year_start_contributions |-> 0,
     investment_gain |-> 0,
     results_yearly |-> <<>>, results_monthly |-> <<>>]

\* for year in range(1, years + 1): the head of the loop, entered with year y.
BeginYear(a, f, y) ==
    IF y <= a.years
    THEN [f EXCEPT !.pc = "month", !.year = y, !.month = 1,
                   !.year_start_value = f.total_value,
                   !.year_start_contributions = f.total_contributions]
    ELSE [f EXCEPT !.pc = "return"]

\* The function's preamble.  The inflation-adjusted rate is computed when
\* annual_inflation_rate is truthy; its division raises ZeroDivisionError
\* when 1 + annual_inflation_rate is zero.
Enter(a) ==
    LET infl == a.annual_inflation_rate
        denom == RatAdd(RatOne, infl)
        monthly_rate == RatDiv(a.annual_return, <<12, 1>>)
    IN  IF ~RatIsZero(infl) /\ RatIsZero(denom)
        THEN [NoFrame EXCEPT !.pc = "raised",
                             !.total_contributions = Euro(a.initial_investment),
                             !.total_value = Euro(a.initial_investment),
                             !.monthly_contrib = Euro(a.monthly_contribution),
                             !.monthly_rate = monthly_rate]
        ELSE LET real_annual_return ==
                     IF ~RatIsZero(infl)
                     THEN RatSub(RatDiv(RatAdd(RatOne, a.annual_return), denom), RatOne)
                     ELSE a.annual_return
             IN  BeginYear(a,
                     [NoFrame EXCEPT
                         !.total_contributions = Euro(a.initial_investment),
                         !.total_value = Euro(a.initial_investment),
                         !.monthly_contrib = Euro(a.monthly_contribution),
                         !.monthly_rate = monthly_rate,
                         !.real_annual_return = real_annual_return,
                         !.real_monthly_rate = RatDiv(real_annual_return, <<12, 1>>),
                         !.current_month = a.start_month,
                         !.current_year = a.start_year],
                     1)

\* MonthStep keeping in the accumulators the rounded figures it emits.
MonthStep_CarryRounded(a, f) ==
    LET total_value == Grow(f.total_value, f.monthly_rate) + f.monthly_contrib
        total_contributions == f.total_contributions + f.monthly_contrib
        display_month == ((f.current_month + f.month - 2) % 12) + 1
        display_year == f.current_year + ((f.current_month + f.month - 2) \div 12)
        investment_gain == total_value - total_contributions
        row == [Year |-> f.year,
                Month |-> f.month,
                Calendar_Month |-> display_month,
                Calendar_Year |-> display_year,
                Month_Name |-> MONTH_NAMES[display_month],
                Monthly_Contribution |-> Round2(f.monthly_contrib),
                Total_Contributions |-> Round2(total_contributions),
                Investment_Gain |-> Round2(investment_gain),
                Total_Value |-> Round2(total_value)]
    IN  [f EXCEPT !.total_value = CentUnits * Round2(total_value),
                  !.total_contributions = CentUnits * Round2(total_contributions),
                  !.investment_gain = investment_gain,
                  !.results_monthly = Append(f.results_monthly, row),
                  !.month = IF f.month < MonthsPerYear THEN f.month + 1 ELSE f.month,
                  !.pc = IF f.month < MonthsPerYear THEN "month" ELSE "lumps"]

\* MonthStep with the growth written as total_value * monthly_rate: the
\* principal is lost.
MonthStep_NoPrincipal(a, f) ==
    LET total_value == RoundDiv(f.total_value * f.monthly_rate[1], f.monthly_rate[2])
                           + f.monthly_contrib
        total_contributions == f.total_contributions + f.monthly_contrib
        display_month == ((f.current_month + f.month - 2) % 12) + 1
        display_year == f.current_year + ((f.current_month + f.month - 2) \div 12)
        investment_gain == total_value - total_contributions
        row == [Year |-> f.year,
                Month |-> f.month,
                Calendar_Month |-> display_month,
                Calendar_Year |-> display_year,
                Month_Name |-> MONTH_NAMES[display_month],
                Monthly_Contribution |-> Round2(f.monthly_contrib),
                Total_Contributions |-> Round2(total_contributions),
                Investment_Gain |-> Round2(investment_gain),
                Total_Value |-> Round2(total_value)]
    IN  [f EXCEPT !.total_value = total_value,
                  !.total_contributions = total_contributions,
                  !.investment_gain = investment_gain,
                  !.results_monthly = Append(f.results_monthly, row),
                  !.month = IF f.month < MonthsPerYear THEN f.month + 1 ELSE f.month,
                  !.pc = IF f.month < MonthsPerYear THEN "month" ELSE "lumps"]

\* MonthStep with the contribution paid in before the month's growth: the
\* contribution earns growth in the month it is paid.
MonthStep_ContribFirst(a, f) ==
    LET total_value == Grow(f.total_value + f.monthly_contrib, f.monthly_rate)
        total_contributions == f.total_contributions + f.monthly_contrib
        display_month == ((f.current_month + f.month - 2) % 12) + 1
        display_year == f.current_year + ((f.current_month + f.month - 2) \div 12)
        investment_gain == total_value - total_contributions
        row == [Year |-> f.year,
                Month |-> f.month,
                Calendar_Month |-> display_month,
                Calendar_Year |-> display_year,
                Month_Name |-> MONTH_NAMES[display_month],
                Monthly_Contribution |-> Round2(f.monthly_contrib),
                Total_Contributions |-> Round2(total_contributions),
                Investment_Gain |-> Round2(investment_gain),
                Total_Value |-> Round2(total_value)]
    IN  [f EXCEPT !.total_value = total_value,
                  !.total_contributions = total_contributions,
                  !.investment_gain = investment_gain,
                  !.results_monthly = Append(f.results_monthly, row),
                  !.month = IF f.month < MonthsPerYear THEN f.month + 1 ELSE f.month,
                  !.pc = IF f.month < MonthsPerYear THEN "month" ELSE "lumps"]

\* One pass of the body of the month loop.
MonthStep(a, f) ==
    LET total_value == Grow(f.total_value, f.monthly_rate)
                           + f.monthly_contrib
        total_contributions == f.total_contributions + f.monthly_contrib
        display_month == ((f.current_month + f.month - 2) % 12) + 1
        display_year == f.current_year + ((f.current_month + f.month - 2) \div 12)
        investment_gain == total_value - total_contributions
        row == [Year |-> f.year,
                Month |-> f.month,
                Calendar_Month |-> display_month,
                Calendar_Year |-> display_year,
                Month_Name |-> MONTH_NAMES[display_month],
                Monthly_Contribution |-> Round2(f.monthly_contrib),
                Total_Contributions |-> Round2(total_contributions),
                Investment_Gain |-> Round2(investment_gain),
                Total_Value |-> Round2(total_value)]
    IN  [f EXCEPT !.total_value = total_value,
                  !.total_contributions = total_contributions,
                  !.investment_gain = investment_gain,
                  !.results_monthly = Append(f.results_monthly, row),
                  !.month = IF f.month < MonthsPerYear THEN f.month + 1 ELSE f.month,
                  !.pc = IF f.month < MonthsPerYear THEN "month" ELSE "lumps"]

\* LumpsOfYear with y <= year for y == year: a lump sum posts again in every
\* later year.
LumpsOfYear_From(lump_sums, year) ==
    SelectSeq(lump_sums, LAMBDA l : l[1] <= year)

\* lumps = [amount for (y, amount) in lump_sums if y == year]
LumpsOfYear(lump_sums, year) ==
    SelectSeq(lump_sums, LAMBDA l : l[1] = year)

RECURSIVE SumAmounts(_)
SumAmounts(lumps) ==
    IF lumps = <<>> THEN 0 ELSE Euro(Head(lumps)[2]) + SumAmounts(Tail(lumps))

\* ApplyLumps keeping one amount per year (lump sums keyed by year): the
\* second lump sum of a year is lost.
ApplyLumps_FirstOnly(a, f) ==
    LET lumps == LumpsOfYear(a.lump_sums, f.year)
        first == IF lumps = <<>> THEN <<>> ELSE <<Head(lumps)>>
    IN  [f EXCEPT !.total_value = f.total_value + SumAmounts(first),
                  !.total_contributions = f.total_contributions + SumAmounts(first),
                  !.pc = "yearend"]

\* ApplyLumps with the lump sum's year clamped into 1..years: a lump sum
\* outside the horizon posts in the first or the last year.
ApplyLumps_Clamped(a, f) ==
    LET clamp(y) == IF y < 1 THEN 1 ELSE IF y > a.years THEN a.years ELSE y
        lumps == SelectSeq(a.lump_sums, LAMBDA l : clamp(l[1]) = f.year)
    IN  [f EXCEPT !.total_value = f.total_value + SumAmounts(lumps),
                  !.total_contributions = f.total_contributions + SumAmounts(lumps),
                  !.pc = "yearend"]

\* The lump sums of the year, added at year end.
ApplyLumps(a, f) ==
    LET lumps == LumpsOfYear(a.lump_sums, f.year)
    IN  [f EXCEPT !.total_value = f.total_value + SumAmounts(lumps),
                  !.total_contributions = f.total_contributions + SumAmounts(lumps),
                  !.pc = "yearend"]

\* YearEnd without current_year += 1: the calendar year is never carried
\* from one projection year to the next.
YearEnd_NoCalendarYear(a, f) ==
    LET investment_gain == f.total_value - f.total_contributions
        row == [Year |-> f.year,
                Total_Contributions |-> Round2(f.total_contributions),
                Investment_Gain |-> Round2(investment_gain),
                Total_Value |-> Round2(f.total_value)]
    IN  BeginYear(a,
            [f EXCEPT !.monthly_contrib = Grow(f.monthly_contrib, a.annual_increase_rate),
                      !.investment_gain = investment_gain,
                      !.results_yearly = Append(f.results_yearly, row)],
            f.year + 1)

\* YearEnd with the gain taken against year_start_contributions instead of
\* total_contributions.
YearEnd_GainFromYearStart(a, f) ==
    LET investment_gain == f.total_value - f.year_start_contributions
        row == [Year |-> f.year,
                Total_Contributions |-> Round2(f.total_contributions),
                Investment_Gain |-> Round2(investment_gain),
                Total_Value |-> Round2(f.total_value)]
    IN  BeginYear(a,
            [f EXCEPT !.monthly_contrib = Grow(f.monthly_contrib, a.annual_increase_rate),
                      !.current_year = f.current_year + 1,
                      !.investment_gain = investment_gain,
                      !.results_yearly = Append(f.results_yearly, row)],
            f.year + 1)

\* The annual increase, the calendar year and the year's row; then the next
\* iteration of the year loop.
YearEnd(a, f) ==
    LET investment_gain == f.total_value - f.total_contributions
        row == [Year |-> f.year,
                Total_Contributions |-> Round2(f.total_contributions),
                Investment_Gain |-> Round2(investment_gain),
                Total_Value |-> Round2(f.total_value)]
    IN  BeginYear(a,
            [f EXCEPT !.monthly_contrib = Grow(f.monthly_contrib, a.annual_increase_rate),
                      !.current_year = f.current_year + 1,
                      !.investment_gain = investment_gain,
                      !.results_yearly = Append(f.results_yearly, row)],
            f.year + 1)

\* return pd.DataFrame(results_yearly), pd.DataFrame(results_monthly)
Return(a, f) == [f EXCEPT !.pc = "returned"]

\* One step of a call in progress.
Step(a, f) ==
    CASE f.pc = "month" -> MonthStep(a, f)
      [] f.pc = "lumps" -> ApplyLumps(a, f)
      [] f.pc = "yearend" -> YearEnd(a, f)
      [] f.pc = "return" -> Return(a, f)
      [] OTHER -> f

RECURSIVE RunFrom(_, _)
RunFrom(a, f) ==
    IF f.pc \in {"returned", "raised"} THEN f ELSE RunFrom(a, Step(a, f))

\* What a call with arguments a comes to: the two tables, or the exception.
Outcome(a) ==
    LET f == RunFrom(a, Enter(a))
    IN  IF f.pc = "raised"
        THEN [raised |-> TRUE, yearly |-> <<>>, monthly |-> <<>>]
        ELSE [raised |-> FALSE, yearly |-> f.results_yearly,
              monthly |-> f.results_monthly]

-----------------------------------------------------------------------------
(* The script around the call *)

\* A float the metrics produce: a number (val, a fraction), an infinity or
\* NaN.  "undefined" is the explicit undefined result the specification asks
\* for; no operation of the program produces it.
FNum(r) == [kind |-> "num", val |-> r]
FInf == [kind |-> "inf", val |-> <<0, 1>>]
FNegInf == [kind |-> "-inf", val |-> <<0, 1>>]
FNaN == [kind |-> "nan", val |-> <<0, 1>>]
FloatKinds == {"num", "inf", "-inf", "nan"}

\* x / y of two numbers held as integers of the same unit, as numpy divides
\* floats: a zero divisor gives an infinity or NaN and no exception.
FloatDiv(x, y) ==
    IF y # 0 THEN FNum(Rat(x, y))
    ELSE IF x > 0 THEN FInf
    ELSE IF x < 0 THEN FNegInf
    ELSE FNaN

\* v * 100
Times100(v) ==
    IF v.kind = "num" THEN FNum(Rat(v.val[1] * 100, v.val[2])) ELSE v

\* v + w
FloatAdd(v, w) ==
    IF v.kind = "nan" \/ w.kind = "nan" THEN FNaN
    ELSE IF v.kind = "num" /\ w.kind = "num" THEN FNum(RatAdd(v.val, w.val))
    ELSE IF v.kind = "num" THEN w
    ELSE IF w.kind = "num" THEN v
    ELSE IF v.kind = w.kind THEN v
    ELSE FNaN

\* df["ROI (%)"] = (df["Investment Gain"] / df["Total Contributions"]) * 100
RoiOfRow(row) == Times100(FloatDiv(row.Investment_Gain, row.Total_Contributions))

RoiColumn(df) == [i \in 1..Len(df) |-> RoiOfRow(df[i])]

\* (((final_value / initial_investment) ** (1 / years_invested)) - 1) * 100.
\* The root is kept symbolic: a number result stands for
\* (radicand ** (1 / index) - 1) * 100.  final_value is in cents,
\* initial_investment in euros.
Cagr(final_value, initial_investment, years_invested) ==
    LET ratio == FloatDiv(final_value, initial_investment * 100)
        kind == IF ratio.kind = "num"
                THEN IF ratio.val[1] < 0 /\ years_invested > 1 THEN "nan" ELSE "num"
                ELSE IF ratio.kind = "-inf" /\ years_invested > 1 THEN "inf"
                ELSE ratio.kind
    IN  [kind |-> kind,
         radicand |-> IF kind = "num" THEN ratio.val ELSE <<0, 1>>,
         index |-> years_invested]

\* contribution_percent = (total_contributions / final_value) * 100
ContributionPercent(row) == Times100(FloatDiv(row.Total_Contributions, row.Total_Value))

\* gain_percent = (investment_gain / final_value) * 100
GainPercent(row) == Times100(FloatDiv(row.Investment_Gain, row.Total_Value))

NoCagr == [kind |-> "none", radicand |-> <<0, 1>>, index |-> 0]
NoFloat == [kind |-> "none", val |-> <<0, 1>>]

NoScript ==
    [pc |-> "call", df |-> <<>>, df_monthly |-> <<>>, roi |-> <<>>,
     cagr |-> NoCagr, contribution_percent |-> NoFloat, gain_percent |-> NoFloat,
     yearly_contribution |-> <<>>, yearly_gain |-> <<>>]

\* The Summary tab's metrics, from the last yearly row.
Summary(a, s) ==
    LET last == s.df[Len(s.df)]
    IN  [s EXCEPT !.cagr = Cagr(last.Total_Value, a.initial_investment, a.years),
                  !.contribution_percent = ContributionPercent(last),
                  !.gain_percent = GainPercent(last),
                  !.pc = "done"]

\* column.diff().fillna(column.iloc[0]): the first entry is the column's
\* first value, every later one the difference to the entry before.
DiffFillna(column) ==
    [i \in 1..Len(column) |->
        IF i = 1 THEN column[1] ELSE column[i] - column[i - 1]]

\* The Yearly Analysis frame without the adjustment of the first year.
YearlyDf_NoAdjustment(a, s) ==
    [s EXCEPT !.yearly_contribution =
                  DiffFillna([i \in 1..Len(s.df) |-> s.df[i].Total_Contributions]),
              !.yearly_gain =
                  DiffFillna([i \in 1..Len(s.df) |-> s.df[i].Investment_Gain]),
              !.pc = "analysed"]

\* The Yearly Analysis tab's frame: the yearly (not cumulative) columns of
\* df, in cents, the first year's contribution then overwritten with
\* initial_investment + monthly_contribution * 12 (euros).
YearlyDf(a, s) ==
    LET yearly_contribution ==
            DiffFillna([i \in 1..Len(s.df) |-> s.df[i].Total_Contributions])
        yearly_gain ==
            DiffFillna([i \in 1..Len(s.df) |-> s.df[i].Investment_Gain])
    IN  [s EXCEPT !.yearly_contribution =
                      [yearly_contribution EXCEPT
                          ![1] = 100 * (a.initial_investment + a.monthly_contribution * 12)],
                  !.yearly_gain = yearly_gain,
                  !.pc = "analysed"]

VARIABLES args, frame, script

vars == <<args, frame, script>>

\* The widgets' values of one run of the script.
ArgsSet ==
    UNION {
        [initial_investment : InitialInvestments,
         monthly_contribution : MonthlyContributions,
         years : {y},
         annual_return : AnnualReturns,
         annual_increase_rate : AnnualIncreaseRates,
         annual_inflation_rate : AnnualInflationRates,
         lump_sums : LumpSumLists(y),
         start_month : StartMonths,
         start_year : StartYears] : y \in 1..MaxYears}

\* The widgets' values with every start month and the first and the last
\* start year the sidebar offers.
CalendarStartMonths == 1..12
CalendarStartYears == {2020, 2030}

ArgsCalendar ==
    UNION {
        [initial_investment : {100},
         monthly_contribution : {1},
         years : {y},
         annual_return : {<<12, 100>>},
         annual_increase_rate : {<<32, 1000>>},
         annual_inflation_rate : {<<0, 1>>},
         lump_sums : {<<>>, <<<<1, 30>>>>},
         start_month : CalendarStartMonths,
         start_year : CalendarStartYears] : y \in 1..MaxYears}

Init ==
    /\ args \in ArgsSet
    /\ frame = NoFrame
    /\ script = NoScript

\* df, df_monthly = calculate_investment_detailed(...): the call is entered;
\* an exception raised in it ends the script run.
Call ==
    /\ script.pc = "call"
    /\ frame' = Enter(args)
    /\ script' = [script EXCEPT !.pc = IF frame'.pc = "raised" THEN "crashed" ELSE "in_call"]
    /\ UNCHANGED args

Month ==
    /\ script.pc = "in_call"
    /\ frame.pc = "month"
    /\ frame' = MonthStep(args, frame)
    /\ UNCHANGED <<args, script>>

Lumps ==
    /\ script.pc = "in_call"
    /\ frame.pc = "lumps"
    /\ frame' = ApplyLumps(args, frame)
    /\ UNCHANGED <<args, script>>

EndOfYear ==
    /\ script.pc = "in_call"
    /\ frame.pc = "yearend"
    /\ frame' = YearEnd(args, frame)
    /\ UNCHANGED <<args, script>>

Returns ==
    /\ script.pc = "in_call"
    /\ frame.pc = "return"
    /\ frame' = Return(args, frame)
    /\ script' = [script EXCEPT !.df = frame.results_yearly,
                                !.df_monthly = frame.results_monthly,
                                !.pc = "roi"]
    /\ UNCHANGED args

Roi ==
    /\ script.pc = "roi"
    /\ script' = [script EXCEPT !.roi = RoiColumn(script.df), !.pc = "summary"]
    /\ UNCHANGED <<args, frame>>

Summarise ==
    /\ script.pc = "summary"
    /\ script' = Summary(args, script)
    /\ UNCHANGED <<args, frame>>

YearlyAnalysis ==
    /\ script.pc = "done"
    /\ script' = YearlyDf(args, script)
    /\ UNCHANGED <<args, frame>>

Next ==
    \/ Call
    \/ Month
    \/ Lumps
    \/ EndOfYear
    \/ Returns
    \/ Roi
    \/ Summarise
    \/ YearlyAnalysis

Spec == Init /\ [][Next]_vars

\* The script run from every calendar anchor.
InitCalendar ==
    /\ args \in ArgsCalendar
    /\ frame = NoFrame
    /\ script = NoScript

SpecCalendar == InitCalendar /\ [][Next]_vars

TypeOK ==
    /\ args \in ArgsSet \cup ArgsCalendar
    /\ frame.pc \in {"idle", "month", "lumps", "yearend", "return", "returned", "raised"}
    /\ script.pc \in {"call", "in_call", "crashed", "roi", "summary", "done", "analysed"}

-----------------------------------------------------------------------------
(* Quantities the properties speak of *)

\* The monthly contribution in effect in year j:
\* monthly_contribution * (1 + annual_increase_rate)^(j-1).
RECURSIVE ContribInYear(_, _)
ContribInYear(a, j) ==
    IF j <= 1 THEN Euro(a.monthly_contribution)
    ELSE Grow(ContribInYear(a, j - 1), a.annual_increase_rate)

\* The monthly contributions of the years 1..y.
RECURSIVE ContributionsThrough(_, _)
ContributionsThrough(a, y) ==
    IF y <= 0 THEN 0
    ELSE ContributionsThrough(a, y - 1) + MonthsPerYear * ContribInYear(a, y)

\* The amounts of the lump sums whose year is in lo..hi.
RECURSIVE LumpsBetween(_, _, _)
LumpsBetween(lump_sums, lo, hi) ==
    IF lump_sums = <<>> THEN 0
    ELSE (IF lo <= Head(lump_sums)[1] /\ Head(lump_sums)[1] <= hi
          THEN Euro(Head(lump_sums)[2]) ELSE 0)
         + LumpsBetween(Tail(lump_sums), lo, hi)

\* total_contributions at the end of year y, lump sums of the year included.
ClosedContributions(a, y) ==
    Euro(a.initial_investment) + ContributionsThrough(a, y)
        + LumpsBetween(a.lump_sums, 1, y)

\* total_contributions after month m of year y.
ContributionsAtMonth(a, y, m) ==
    Euro(a.initial_investment) + ContributionsThrough(a, y - 1)
        + m * ContribInYear(a, y) + LumpsBetween(a.lump_sums, 1, y - 1)

RateAtLeast(r, n, d) == r[1] * d >= n * r[2]
RateAtMost(r, n, d) == r[1] * d <= n * r[2]

\* The yearly row of year y has just been emitted.
JustEmittedYear(y) ==
    /\ Len(frame.results_yearly) = y
    /\ y >= 1
    /\ \/ frame.pc \in {"return", "returned"}
       \/ frame.pc = "month" /\ frame.month = 1 /\ frame.year = y + 1
                             /\ Len(frame.results_monthly) = MonthsPerYear * y

\* The call is over: it returned or raised.
CallOver == frame.pc \in {"returned", "raised"}

\* What the call in progress has come to.
CurrentOutcome ==
    [raised |-> frame.pc = "raised",
     yearly |-> frame.results_yearly,
     monthly |-> frame.results_monthly]

-----------------------------------------------------------------------------
(* C1 *)

\* C1: every yearly row y carries total_contributions = initial_investment
\* + sum over j = 1..y of 12 * monthly_contribution * (1 + rate)^(j-1)
\* + the amounts of all lump sums with year in 1..y; the unrounded
\* accumulator has that value when the row is emitted, the row its rounding.
C1_ContributionAccounting ==
    /\ \A y \in 1..Len(frame.results_yearly) :
           frame.results_yearly[y].Total_Contributions
               = Round2(ClosedContributions(args, y))
    /\ \A y \in 1..args.years :
           JustEmittedYear(y) =>
               frame.total_contributions = ClosedContributions(args, y)

\* A finished run of two years or more with growing monthly contributions,
\* two lump sums of the same year and the rest of the sums non-trivial.
C1_Witness ==
    /\ frame.pc = "returned"
    /\ args.years >= 2
    /\ args.monthly_contribution > 0
    /\ args.annual_increase_rate = <<32, 1000>>
    /\ Len(args.lump_sums) = 2
    /\ args.lump_sums[1][1] = args.lump_sums[2][1]
    /\ args.lump_sums[1][1] \in 1..args.years
    /\ frame.total_contributions = ClosedContributions(args, args.years)

-----------------------------------------------------------------------------
(* C2 *)

\* The rows emitted so far are the rows of the periods passed, in order:
\* yearly rows 1, 2, ..., monthly rows (1,1), ..., (1,12), (2,1), ..., none
\* missing, repeated or ahead of its turn.
RowsInOrder ==
    /\ \A y \in 1..Len(frame.results_yearly) : frame.results_yearly[y].Year = y
    /\ \A i \in 1..Len(frame.results_monthly) :
           /\ frame.results_monthly[i].Year = ((i - 1) \div MonthsPerYear) + 1
           /\ frame.results_monthly[i].Month = ((i - 1) % MonthsPerYear) + 1
    /\ Len(frame.results_yearly) <= args.years
    /\ frame.pc = "month" =>
           /\ Len(frame.results_yearly) = frame.year - 1
           /\ Len(frame.results_monthly)
                  = MonthsPerYear * (frame.year - 1) + frame.month - 1
    /\ frame.pc \in {"lumps", "yearend"} =>
           /\ Len(frame.results_yearly) = frame.year - 1
           /\ Len(frame.results_monthly) = MonthsPerYear * frame.year

\* C2: for every years >= 1 and any other parameter values the call ends
\* having emitted exactly years yearly rows and years * 12 monthly rows, in
\* period order.
C2_CompleteSeries ==
    /\ RowsInOrder
    /\ CallOver =>
           /\ frame.pc = "returned"
           /\ Len(frame.results_yearly) = args.years
           /\ Len(frame.results_monthly) = args.years * MonthsPerYear

\* The part of C2 the program keeps: a call that returns has emitted the
\* complete series, in order.
ReturnedSeriesComplete ==
    /\ RowsInOrder
    /\ frame.pc \in {"return", "returned"} =>
           /\ Len(frame.results_yearly) = args.years
           /\ Len(frame.results_monthly) = args.years * MonthsPerYear

-----------------------------------------------------------------------------
(* C3 *)

Cents(x) == x \div CentUnits

LumpsIn(y) == LumpsBetween(args.lump_sums, y, y)

\* The rows show a lump sum of year k from the yearly row of year k on and
\* in no monthly row of a year <= k.
C3_Rows ==
    /\ \A i \in 1..Len(frame.results_monthly) :
           LET row == frame.results_monthly[i]
           IN  row.Total_Contributions
                   = Round2(ContributionsAtMonth(args, row.Year, row.Month))
    /\ \A y \in 1..Len(frame.results_yearly) :
           LET row == frame.results_yearly[y]
               december == frame.results_monthly[MonthsPerYear * y]
           IN  /\ row.Total_Contributions
                      = december.Total_Contributions + Cents(LumpsIn(y))
               /\ row.Total_Value = december.Total_Value + Cents(LumpsIn(y))

\* A lump sum enters the accumulators in the step between the twelfth
\* monthly row of its year and the year's row, and in no other step.
C3_Step ==
    /\ frame.pc = "lumps" =>
           /\ Len(frame.results_monthly) = MonthsPerYear * frame.year
           /\ Len(frame.results_yearly) = frame.year - 1
           /\ frame'.total_value = frame.total_value + LumpsIn(frame.year)
           /\ frame'.total_contributions
                  = frame.total_contributions + LumpsIn(frame.year)
           /\ frame'.results_monthly = frame.results_monthly
           /\ frame'.results_yearly = frame.results_yearly
           /\ frame'.pc = "yearend"
    /\ frame.pc = "yearend" =>
           /\ frame'.total_value = frame.total_value
           /\ frame'.total_contributions = frame.total_contributions
           /\ Len(frame'.results_yearly) = frame.year
           /\ frame'.results_yearly[frame.year].Total_Value = Round2(frame.total_value)
    /\ frame.pc = "month" =>
           /\ frame'.total_contributions
                  = frame.total_contributions + frame.monthly_contrib
           /\ frame'.total_value
                  = Grow(frame.total_value, frame.monthly_rate) + frame.monthly_contrib

\* C3: a lump sum (k, amount) with 1 <= k <= years is added to total_value
\* and total_contributions once, after the twelfth monthly row of year k and
\* before the yearly row of year k; no monthly row of a year <= k shows it,
\* the yearly row of year k and every later row does.
C3_LumpSumTiming == []C3_Rows /\ [][C3_Step]_vars

\* A finished run whose first year has a lump sum and whose second year has
\* rows after it.
C3_Witness ==
    /\ frame.pc = "returned"
    /\ args.years >= 2
    /\ LumpsIn(1) > 0
    /\ frame.results_yearly[1].Total_Value
           = frame.results_monthly[MonthsPerYear].Total_Value + Cents(LumpsIn(1))
    /\ frame.results_monthly[MonthsPerYear + 1].Total_Contributions
           >= frame.results_monthly[MonthsPerYear].Total_Contributions + Cents(LumpsIn(1))

-----------------------------------------------------------------------------
(* C4 *)

NonNegativeInputs(a) ==
    /\ a.initial_investment >= 0
    /\ a.years >= 1
    /\ RateAtLeast(a.annual_return, 0, 1)
    /\ a.monthly_contribution >= 0
    /\ \A i \in 1..Len(a.lump_sums) : a.lump_sums[i][2] >= 0

YearlyNonDecreasing ==
    \A y \in 2..Len(frame.results_yearly) :
        /\ frame.results_yearly[y].Total_Value
               >= frame.results_yearly[y - 1].Total_Value
        /\ frame.results_yearly[y].Total_Contributions
               >= frame.results_yearly[y - 1].Total_Contributions

\* C4 as stated: with non-negative amounts and annual_return, and any
\* annual_increase_rate, total_value and total_contributions never decrease
\* from one yearly row to the next.
C4_AnyIncreaseRate == NonNegativeInputs(args) => YearlyNonDecreasing

\* C4 as amended: the same, for annual_increase_rate >= -1 (the monthly
\* contribution then stays non-negative).
C4_MonotoneYearly ==
    (NonNegativeInputs(args) /\ RateAtLeast(args.annual_increase_rate, -1, 1))
        => YearlyNonDecreasing

\* A finished run with positive return, shrinking contributions and a lump
\* sum, whose totals grew from the first yearly row to the second.
C4_Witness ==
    /\ frame.pc = "returned"
    /\ args.years >= 2
    /\ args.annual_return = <<12, 100>>
    /\ args.annual_increase_rate = <<-1, 2>>
    /\ args.monthly_contribution > 0
    /\ args.initial_investment > 0
    /\ LumpsIn(2) > 0
    /\ frame.results_yearly[2].Total_Value > frame.results_yearly[1].Total_Value
    /\ frame.results_yearly[2].Total_Contributions
           > frame.results_yearly[1].Total_Contributions

-----------------------------------------------------------------------------
(* C5 *)

\* lump_sums without the entries whose year is outside 1..years.
InRangeLumps(a) ==
    SelectSeq(a.lump_sums, LAMBDA l : 1 <= l[1] /\ l[1] <= a.years)

\* C5: a lump sum whose year is outside 1..years is never applied: the call
\* comes to what it comes to with those entries removed.
C5_OutOfRangeIgnored ==
    CallOver =>
        CurrentOutcome = Outcome([args EXCEPT !.lump_sums = InRangeLumps(args)])

\* A finished run with one lump sum before the horizon or after it and one
\* inside it.
C5_Witness ==
    /\ frame.pc = "returned"
    /\ Len(args.lump_sums) = 2
    /\ Len(InRangeLumps(args)) = 1
    /\ args.monthly_contribution > 0
    /\ frame.results_yearly[args.years].Total_Contributions
           = Round2(ClosedContributions(args, args.years))

-----------------------------------------------------------------------------
(* C6 *)

\* C6: with initial_investment = 0 the CAGR computation ends in an explicit
\* undefined-CAGR outcome, never in an infinity, NaN or a number.
C6_CagrUndefined ==
    (script.pc = "done" /\ args.initial_investment = 0)
        => script.cagr.kind = "undefined"

-----------------------------------------------------------------------------
(* C7 *)

\* C7: the ROI of every yearly row whose total_contributions is 0 is an
\* explicit undefined result, not NaN or another float in the column.
C7_RoiUndefined ==
    \A i \in 1..Len(script.roi) :
        script.df[i].Total_Contributions = 0 => script.roi[i].kind = "undefined"

-----------------------------------------------------------------------------
(* C8 *)

\* The arguments are within the ranges the sidebar allows.
ValidParams(a) ==
    /\ a.initial_investment >= 0
    /\ a.monthly_contribution >= 0
    /\ a.years >= 1
    /\ RateAtLeast(a.annual_return, 0, 1) /\ RateAtMost(a.annual_return, 20, 100)
    /\ RateAtLeast(a.annual_increase_rate, 0, 1)
    /\ RateAtMost(a.annual_increase_rate, 10, 100)
    /\ RateAtLeast(a.annual_inflation_rate, 0, 1)
    /\ RateAtMost(a.annual_inflation_rate, 10, 100)
    /\ \A i \in 1..Len(a.lump_sums) :
           /\ a.lump_sums[i][1] \in 1..a.years
           /\ a.lump_sums[i][2] >= 0

\* contribution_percent + gain_percent of a row.
PercentSum(row) == FloatAdd(ContributionPercent(row), GainPercent(row))

\* v is a number within n/d of 100.
WithinOf100(v, n, d) ==
    /\ v.kind = "num"
    /\ Abs(v.val[1] - 100 * v.val[2]) * d <= n * v.val[2]

\* Total_Contributions + Investment_Gain - Total_Value of a row, in cents.
CentsAstray(row) == row.Total_Contributions + row.Investment_Gain - row.Total_Value

\* C8 as stated: for every yearly row of every valid parameter record,
\* contribution_percent + gain_percent computed from the row's rounded
\* fields is within 0.01 of 100.
C8_PercentSumWithinCent ==
    ValidParams(args) =>
        \A y \in 1..Len(frame.results_yearly) :
            WithinOf100(PercentSum(frame.results_yearly[y]), 1, 100)

\* C8 as amended: the three rounded fields of a yearly row agree to a cent;
\* when the row's total_value is not zero the sum of the two percentages is
\* a number within 1 / |total_value in euros| of 100, hence within 0.01 of
\* 100 when total_value is 100 euros or more in size, and it is exactly 100
\* when the fields add up.
C8_PercentSumWithinRounding ==
    \A y \in 1..Len(frame.results_yearly) :
        LET row == frame.results_yearly[y]
        IN  /\ Abs(CentsAstray(row)) <= 1
            /\ row.Total_Value # 0 =>
                   /\ WithinOf100(PercentSum(row), 100, Abs(row.Total_Value))
                   /\ Abs(row.Total_Value) >= 100 * 100 =>
                          WithinOf100(PercentSum(row), 1, 100)
                   /\ CentsAstray(row) = 0 => WithinOf100(PercentSum(row), 0, 1)

\* A yearly row of a valid parameter record whose rounded fields are a cent
\* apart, with a total_value that is not zero.
C8_Witness ==
    /\ ValidParams(args)
    /\ \E y \in 1..Len(frame.results_yearly) :
           /\ CentsAstray(frame.results_yearly[y]) # 0
           /\ frame.results_yearly[y].Total_Value > 0
           /\ PercentSum(frame.results_yearly[y]).kind = "num"

-----------------------------------------------------------------------------
(* C9 *)

\* C9: no value of annual_return, annual_increase_rate or
\* annual_inflation_rate makes the call raise; it runs to its return.
C9_NoFailurePath == frame.pc # "raised"

-----------------------------------------------------------------------------
(* C10 *)

\* C10: two calls that differ only in annual_inflation_rate come to the same
\* yearly and monthly series.
C10_InflationIgnored ==
    CallOver =>
        \A r \in AnnualInflationRates :
            CurrentOutcome = Outcome([args EXCEPT !.annual_inflation_rate = r])

\* The part of C10 the program keeps: calls that return differ in nothing
\* when they differ in annual_inflation_rate only.
ReturnedSeriesIgnoreInflation ==
    frame.pc = "returned" =>
        \A r \in AnnualInflationRates :
            LET other == Outcome([args EXCEPT !.annual_inflation_rate = r])
            IN  other.raised \/ other = CurrentOutcome

-----------------------------------------------------------------------------
(* C11 *)

\* k monthly steps from the total v with the contribution c, nothing rounded
\* on the way: growth, then the month's contribution.
RECURSIVE MonthsOn(_, _, _, _)
MonthsOn(v, c, rate, k) ==
    IF k <= 0 THEN v ELSE MonthsOn(Grow(v, rate) + c, c, rate, k - 1)

\* total_value at the end of year y, the lump sums of the year included.
RECURSIVE UnroundedAtYearEnd(_, _, _)
UnroundedAtYearEnd(a, rate, y) ==
    IF y <= 0 THEN Euro(a.initial_investment)
    ELSE MonthsOn(UnroundedAtYearEnd(a, rate, y - 1), ContribInYear(a, y), rate,
                  MonthsPerYear)
             + LumpsBetween(a.lump_sums, y, y)

\* total_value after n monthly steps; the lump sums of a year are in from
\* the first month of the next year on.
UnroundedValue(a, n) ==
    LET rate == RatDiv(a.annual_return, <<12, 1>>)
        y == n \div MonthsPerYear
    IN  MonthsOn(UnroundedAtYearEnd(a, rate, y), ContribInYear(a, y + 1), rate,
                 n % MonthsPerYear)

\* A monthly row is the last row emitted.
JustEmittedMonth ==
    /\ Len(frame.results_monthly) > 0
    /\ \/ frame.pc = "lumps"
       \/ frame.pc = "month" /\ frame.month > 1

LastMonthly == frame.results_monthly[Len(frame.results_monthly)]

\* C11 as stated: after a monthly or yearly row is emitted the accumulators
\* hold the rounded totals of that row, and the recurrence goes on from them.
C11_RoundedCarriedForward ==
    /\ JustEmittedMonth =>
           /\ frame.total_value = CentUnits * LastMonthly.Total_Value
           /\ frame.total_contributions = CentUnits * LastMonthly.Total_Contributions
    /\ \A y \in 1..args.years :
           JustEmittedYear(y) =>
               /\ frame.total_value = CentUnits * frame.results_yearly[y].Total_Value
               /\ frame.total_contributions
                      = CentUnits * frame.results_yearly[y].Total_Contributions

\* C11 as amended: only the copies written into the rows are rounded; the
\* accumulators are never rounded, and after each emission they hold the
\* totals of the recurrence run without any rounding, of which the row is
\* the rounding.
C11_UnroundedCarriedForward ==
    /\ JustEmittedMonth =>
           LET n == Len(frame.results_monthly)
           IN  /\ frame.total_value
                      = UnroundedValue(args, n)
                            - (IF n % MonthsPerYear = 0 THEN LumpsIn(n \div MonthsPerYear)
                               ELSE 0)
               /\ frame.total_contributions
                      = ContributionsAtMonth(args, LastMonthly.Year, LastMonthly.Month)
               /\ LastMonthly.Total_Value = Round2(frame.total_value)
               /\ LastMonthly.Total_Contributions = Round2(frame.total_contributions)
    /\ \A y \in 1..args.years :
           JustEmittedYear(y) =>
               /\ frame.total_value = UnroundedValue(args, MonthsPerYear * y)
               /\ frame.total_contributions = ClosedContributions(args, y)
               /\ frame.results_yearly[y].Total_Value = Round2(frame.total_value)
               /\ frame.results_yearly[y].Total_Contributions
                      = Round2(frame.total_contributions)

\* A monthly row has just been emitted, the accumulator is not a whole
\* number of cents, and the row is not what the recurrence would give from
\* the rounded total of the row before.
C11_Witness ==
    /\ JustEmittedMonth
    /\ Len(frame.results_monthly) >= 2
    /\ frame.total_value # CentUnits * LastMonthly.Total_Value
    /\ LastMonthly.Month > 1
    /\ LastMonthly.Total_Value
           # Round2(Grow(CentUnits
                           * frame.results_monthly[Len(frame.results_monthly) - 1].Total_Value,
                         frame.monthly_rate)
                    + frame.monthly_contrib)

-----------------------------------------------------------------------------
(* C12 *)

\* The months from January of the start year to the row of month m of
\* year y: start_month - 1 + (y - 1) * 12 + (m - 1).
MonthsFromAnchor(a, y, m) ==
    a.start_month - 1 + (y - 1) * MonthsPerYear + (m - 1)

\* The calendar month of a row, counted from year 0.
CalendarIndex(row) == row.Calendar_Year * 12 + row.Calendar_Month

\* C12: the monthly row (y, m) carries the calendar labels of the month
\* (y-1)*12 + (m-1) months after (start_month, start_year); Calendar_Month
\* is in 1..12 and consecutive rows are consecutive calendar months.
C12_CalendarLabels ==
    \A i \in 1..Len(frame.results_monthly) :
        LET row == frame.results_monthly[i]
            k == MonthsFromAnchor(args, row.Year, row.Month)
        IN  /\ row.Calendar_Month = (k % 12) + 1
            /\ row.Calendar_Month \in 1..12
            /\ row.Calendar_Year = args.start_year + (k \div 12)
            /\ i > 1 =>
                   CalendarIndex(row) = CalendarIndex(frame.results_monthly[i - 1]) + 1

\* A finished run of two years or more from a month in the middle of the
\* year: the labels pass December twice and end two calendar years on.
C12_Witness ==
    /\ frame.pc = "returned"
    /\ args.years >= 2
    /\ args.start_month = 7
    /\ args.start_year = 2030
    /\ frame.results_monthly[6].Calendar_Month = 12
    /\ frame.results_monthly[7].Calendar_Month = 1
    /\ frame.results_monthly[7].Calendar_Year = 2031
    /\ frame.results_monthly[19].Calendar_Year = 2032
    /\ LastMonthly.Calendar_Month = 6
    /\ LastMonthly.Calendar_Year = args.start_year + args.years

-----------------------------------------------------------------------------
(* C13 *)

\* C13: in the Yearly Analysis frame the yearly contribution of year 1 is
\* initial_investment + monthly_contribution * 12 whatever lump sums are
\* registered, the one of a year y >= 2 is the difference of the emitted
\* rows' Total_Contributions; the yearly gain of year 1 is the first row's
\* Investment_Gain and of a year y >= 2 the difference of the rows' gains.
C13_YearlySeries ==
    script.pc = "analysed" =>
        /\ Len(script.yearly_contribution) = args.years
        /\ Len(script.yearly_gain) = args.years
        /\ \A y \in 1..args.years :
               /\ script.yearly_contribution[y] =
                      IF y = 1
                      THEN Cents(Euro(args.initial_investment)
                                 + MonthsPerYear * Euro(args.monthly_contribution))
                      ELSE frame.results_yearly[y].Total_Contributions
                           - frame.results_yearly[y - 1].Total_Contributions
               /\ script.yearly_gain[y] =
                      IF y = 1
                      THEN frame.results_yearly[1].Investment_Gain
                      ELSE frame.results_yearly[y].Investment_Gain
                           - frame.results_yearly[y - 1].Investment_Gain

\* The frame of a run of two years with a lump sum in year 1 and a gain:
\* the first yearly contribution is not the first row's cumulative value.
C13_Witness ==
    /\ script.pc = "analysed"
    /\ args.years >= 2
    /\ LumpsBetween(args.lump_sums, 1, 1) > 0
    /\ args.monthly_contribution > 0
    /\ script.yearly_contribution[1] # script.df[1].Total_Contributions
    /\ script.yearly_contribution[2] > 0
    /\ script.yearly_gain[2] # 0

-----------------------------------------------------------------------------
(* C14 *)

\* annual_return / 12
MonthlyRateOf(a) == RatDiv(a.annual_return, <<12, 1>>)

\* A pass of the month loop grows the value held before it and then adds
\* the month's contribution, which also enters total_contributions.
C14_Step ==
    frame.pc = "month" =>
        LET contrib == ContribInYear(args, frame.year)
        IN  /\ frame'.total_value
                   = Grow(frame.total_value, MonthlyRateOf(args)) + contrib
            /\ frame'.total_contributions = frame.total_contributions + contrib
            /\ frame'.total_value - frame'.total_contributions
                   = Grow(frame.total_value, MonthlyRateOf(args))
                     - frame.total_contributions

\* Without monthly contribution and lump sums the value after n months is
\* initial_investment * (1 + annual_return / 12)^n and the contributions
\* stay at initial_investment.
C14_Compounded ==
    (/\ frame.pc \notin {"idle", "raised"}
     /\ args.monthly_contribution = 0
     /\ args.lump_sums = <<>>)
        => /\ frame.total_value
                  = MonthsOn(Euro(args.initial_investment), 0, MonthlyRateOf(args),
                             Len(frame.results_monthly))
           /\ frame.total_contributions = Euro(args.initial_investment)

\* C14: each monthly step applies growth before the month's contribution:
\* total_value' = total_value * (1 + annual_return / 12) + contrib and
\* total_contributions' = total_contributions + contrib; with
\* monthly_contribution = 0 and no lump sums the unrounded total_value after
\* n months is initial_investment * (1 + annual_return / 12)^n and
\* total_contributions stays initial_investment.
C14_GrowthBeforeContribution == []C14_Compounded /\ [][C14_Step]_vars

\* 100 at 12 % a year with nothing paid in, after two years: 112.68 in the
\* first yearly row, contributions still 100.
C14_Witness ==
    /\ frame.pc = "returned"
    /\ args.years = 2
    /\ args.initial_investment = 100
    /\ args.monthly_contribution = 0
    /\ args.lump_sums = <<>>
    /\ args.annual_return = <<12, 100>>
    /\ Len(frame.results_monthly) = 24
    /\ frame.total_value > Euro(126)
    /\ frame.total_contributions = Euro(100)
    /\ frame.results_yearly[1].Total_Value = 11268
    /\ frame.results_yearly[1].Investment_Gain = 1268

-----------------------------------------------------------------------------
(* C15 *)

RECURSIVE SumOf(_)
SumOf(column) ==
    IF column = <<>> THEN 0 ELSE Head(column) + SumOf(Tail(column))

\* C15: the Yearly Contribution values of the Yearly Analysis frame add up
\* to the last yearly row's Total_Contributions: the adjustment of the
\* first year loses no contribution, a lump sum of year 1 included, and
\* counts none twice.
C15_YearlySumsToTotal ==
    script.pc = "analysed" =>
        SumOf(script.yearly_contribution)
            = frame.results_yearly[args.years].Total_Contributions

\* What holds instead: the sum falls short of the last row by the lump sums
\* of year 1, which the adjustment of the first year leaves out.
YearOneLumpsLeftOut ==
    script.pc = "analysed" =>
        SumOf(script.yearly_contribution)
            = frame.results_yearly[args.years].Total_Contributions
              - Cents(LumpsBetween(args.lump_sums, 1, 1))

====
